---- MODULE Spec2Model ----
(***************************************************************************)
(* populate_database.py: chunk identity assignment (calculate_chunk_ids)   *)
(* and the add-only synchronisation of chunks into the Chroma store        *)
(* (main, add_to_chroma, clear_database).                                  *)
(*                                                                         *)
(* A chunk is represented by its metadata mapping; the page text is opaque *)
(* to every line of the program that is modelled here.  Identifiers are    *)
(* real strings, built by the same concatenations as the f-strings of the  *)
(* source.                                                                 *)
(***************************************************************************)
EXTENDS Integers, Sequences, FiniteSets, Bags

VARIABLES
    pc,                  \* position of the current invocation of main()
    run,                 \* number of the current invocation
    reset,               \* args.reset
    chroma,              \* the directory CHROMA_PATH: [exists, ids]
    pending,             \* ids added through db but not yet durable
    chunks,              \* main: chunks / add_to_chroma: chunks_with_ids
    input,               \* the chunks as split_documents returned them
    existing_ids,        \* add_to_chroma: existing_ids
    new_chunks,          \* add_to_chroma: new_chunks
    trace,               \* calls and store operations of this invocation
    submitted,           \* bag of ids passed to db.add_documents since the last reset
    prior,               \* ids in the store when this invocation started, or after its reset
    prevInput,           \* input of the previous invocation
    prevOutcome,         \* how the previous invocation ended
    prevPrior,           \* prior of the previous invocation, when it was aborted
    wiped,               \* clear_database removed a store that held ids
    orderly,             \* since the last reset no invocation was aborted and
                         \* every input kept each "source:page" in one run
    cpc,                 \* position inside calculate_chunk_ids
    ci,                  \* calculate_chunk_ids: index of the loop over chunks
    last_page_id,        \* calculate_chunk_ids: last_page_id
    current_chunk_index, \* calculate_chunk_ids: current_chunk_index
    exec,                \* number of the current execution of calculate_chunk_ids
    firstIds             \* ids assigned by the first execution

syncVars == <<pc, run, reset, chroma, pending, existing_ids, new_chunks,
              trace, submitted, prior, prevInput, prevOutcome, prevPrior, wiped, orderly>>
calcVars == <<cpc, ci, last_page_id, current_chunk_index, exec, firstIds>>
vars == <<syncVars, calcVars, chunks, input>>

----------------------------------------------------------------------------
(* Bounds *)

MaxLen == 4        \* longest chunk list given to calculate_chunk_ids alone
MaxChunks == 3     \* longest document / chunk list of one invocation of main()
MaxRuns == 2       \* invocations of main() against one CHROMA_PATH

----------------------------------------------------------------------------
(* Python values that occur in chunk metadata *)

NoneV == [kind |-> "none", s |-> "", n |-> 0]
PyStr(t) == [kind |-> "str", s |-> t, n |-> 0]
PyInt(k) == [kind |-> "int", s |-> "", n |-> k]

Digit == <<"0", "1", "2", "3", "4", "5", "6", "7", "8", "9">>

RECURSIVE Dec(_)
\* str() of a non-negative int
Dec(k) == IF k < 10 THEN Digit[k + 1] ELSE Dec(k \div 10) \o Digit[(k % 10) + 1]

\* what an f-string replacement field {v} renders
Render(v) ==
    CASE v.kind = "none" -> "None"
      [] v.kind = "str" -> v.s
      [] v.kind = "int" -> Dec(v.n)

\* dict.get(k): None for an absent key
Get(md, k) == IF k \in DOMAIN md THEN md[k] ELSE NoneV

\* md[k] = v
SetItem(md, k, v) == [j \in (DOMAIN md) \cup {k} |-> IF j = k THEN v ELSE md[j]]

Range(s) == {s[j] : j \in DOMAIN s}

BoundedSeq(S, k) == UNION {[1..m -> S] : m \in 0..k}

\* the bag of the elements of a list
BagOfSeq(s) == [x \in Range(s) |-> Cardinality({j \in DOMAIN s : s[j] = x})]

----------------------------------------------------------------------------
(* Metadata the document loader may produce *)

Meta(src, pg) == [source |-> src, page |-> pg]

\* pages of one PDF "a"
SyncMeta == {Meta(PyStr("a"), PyInt(0)), Meta(PyStr("a"), PyInt(1))}

\* the same, with a page given as a string, a document without "source",
\* a document named "None", and a document without provenance
AllMeta ==
    SyncMeta \cup
    { Meta(PyStr("a"), PyStr("0")),
      [page |-> PyInt(0)],
      Meta(PyStr("None"), PyInt(0)),
      [j \in {} |-> NoneV] }

----------------------------------------------------------------------------
(* calculate_chunk_ids *)

\* LoopBody with the increment of line 122 lost: the index is always 0.
LoopBody_never_increments(last, index, md) ==
    LET current_page_id == Render(Get(md, "source")) \o ":" \o Render(Get(md, "page"))
        chunk_id == current_page_id \o ":" \o Dec(0)
    IN  [last_page_id |-> PyStr(current_page_id),
         current_chunk_index |-> 0,
         chunk |-> SetItem(md, "id", PyStr(chunk_id))]

\* LoopBody with the branches of lines 121-124 exchanged.
LoopBody_branches_exchanged(last, index, md) ==
    LET current_page_id == Render(Get(md, "source")) \o ":" \o Render(Get(md, "page"))
        idx == IF PyStr(current_page_id) = last THEN 0 ELSE index + 1
        chunk_id == current_page_id \o ":" \o Dec(idx)
    IN  [last_page_id |-> PyStr(current_page_id),
         current_chunk_index |-> idx,
         chunk |-> SetItem(md, "id", PyStr(chunk_id))]

\* One iteration of the loop over chunks, lines 116-131.
LoopBody(last, index, md) ==
    LET source == Get(md, "source")
        page == Get(md, "page")
        current_page_id == Render(source) \o ":" \o Render(page)
        idx == IF PyStr(current_page_id) = last THEN index + 1 ELSE 0
        chunk_id == current_page_id \o ":" \o Dec(idx)
    IN  [last_page_id |-> PyStr(current_page_id),
         current_chunk_index |-> idx,
         chunk |-> SetItem(md, "id", PyStr(chunk_id))]

RECURSIVE CalcFrom(_, _, _, _)
CalcFrom(cs, j, last, index) ==
    IF j > Len(cs) THEN cs
    ELSE LET r == LoopBody(last, index, cs[j])
         IN  CalcFrom([cs EXCEPT ![j] = r.chunk], j + 1,
                      r.last_page_id, r.current_chunk_index)

\* The whole function, as add_to_chroma calls it.
calculate_chunk_ids(cs) == CalcFrom(cs, 1, NoneV, 0)

\* The entry with last_page_id and current_chunk_index kept from the
\* previous call (module-level counters).
calculate_chunk_ids_entry_keeps_counters ==
    /\ cpc = "entry"
    /\ ci' = 1
    /\ cpc' = "loop"
    /\ UNCHANGED <<syncVars, chunks, input, last_page_id, current_chunk_index,
                   exec, firstIds>>

\* lines 112-113
calculate_chunk_ids_entry ==
    /\ cpc = "entry"
    /\ last_page_id' = NoneV
    /\ current_chunk_index' = 0
    /\ ci' = 1
    /\ cpc' = "loop"
    /\ UNCHANGED <<syncVars, chunks, input, exec, firstIds>>

\* lines 115-131, one chunk
calculate_chunk_ids_loop ==
    /\ cpc = "loop"
    /\ ci <= Len(chunks)
    /\ LET r == LoopBody(last_page_id, current_chunk_index, chunks[ci])
       IN  /\ chunks' = [chunks EXCEPT ![ci] = r.chunk]
           /\ last_page_id' = r.last_page_id
           /\ current_chunk_index' = r.current_chunk_index
    /\ ci' = ci + 1
    /\ UNCHANGED <<syncVars, input, cpc, exec, firstIds>>

Ids(cs) == [j \in DOMAIN cs |-> Get(cs[j], "id").s]

\* line 133
calculate_chunk_ids_return ==
    /\ cpc = "loop"
    /\ ci > Len(chunks)
    /\ cpc' = "returned"
    /\ firstIds' = IF exec = 1 THEN Ids(chunks) ELSE firstIds
    /\ UNCHANGED <<syncVars, chunks, input, ci, last_page_id, current_chunk_index, exec>>

\* a second call, on the list the first call returned
calculate_chunk_ids_again ==
    /\ cpc = "returned"
    /\ exec = 1
    /\ exec' = 2
    /\ cpc' = "entry"
    /\ UNCHANGED <<syncVars, chunks, input, ci, last_page_id, current_chunk_index, firstIds>>

----------------------------------------------------------------------------
(* Specification of calculate_chunk_ids on its own *)

SyncIdle ==
    /\ pc = "start"
    /\ run = 1
    /\ reset = FALSE
    /\ chroma = [exists |-> FALSE, ids |-> {}]
    /\ pending = {}
    /\ existing_ids = {}
    /\ new_chunks = <<>>
    /\ trace = <<>>
    /\ submitted = EmptyBag
    /\ prior = {}
    /\ prevInput = <<>>
    /\ prevOutcome = "none"
    /\ prevPrior = {}
    /\ wiped = FALSE
    /\ orderly = TRUE

InitIds ==
    /\ SyncIdle
    /\ chunks \in BoundedSeq(AllMeta, MaxLen)
    /\ input = chunks
    /\ cpc = "entry"
    /\ ci = 0
    /\ last_page_id = NoneV
    /\ current_chunk_index = 0
    /\ exec = 1
    /\ firstIds = <<>>

NextIds ==
    \/ calculate_chunk_ids_entry
    \/ calculate_chunk_ids_loop
    \/ calculate_chunk_ids_return
    \/ calculate_chunk_ids_again

SpecIds == InitIds /\ [][NextIds]_vars

----------------------------------------------------------------------------
(* Vocabulary of the properties *)

\* "source:page" as the identifier format states it
PageIdOf(md) == Render(Get(md, "source")) \o ":" \o Render(Get(md, "page"))

\* the (source, page) pair of a chunk, as chunk.metadata.get returns it
Pair(md) == <<Get(md, "source"), Get(md, "page")>>

PageIds(cs) == [j \in DOMAIN cs |-> PageIdOf(cs[j])]

Pairs(cs) == [j \in DOMAIN cs |-> Pair(cs[j])]

Distinct(s) == \A j, k \in DOMAIN s : j # k => s[j] # s[k]

\* every key occupies one contiguous run of the list
Contiguous(s) ==
    \A j, k \in DOMAIN s : (j < k /\ s[j] = s[k]) => \A m \in j..k : s[m] = s[j]

----------------------------------------------------------------------------
(* main, clear_database, add_to_chroma *)

CalcIdle ==
    /\ cpc = "idle"
    /\ ci = 0
    /\ last_page_id = NoneV
    /\ current_chunk_index = 0
    /\ exec = 0
    /\ firstIds = <<>>

Init ==
    /\ SyncIdle
    /\ CalcIdle
    /\ chunks = <<>>
    /\ input = <<>>

\* clear_database with the test of line 141 negated.
clear_database_test_negated(dir) ==
    IF ~dir.exists THEN [exists |-> FALSE, ids |-> {}] ELSE dir

\* lines 141-142: the effect of clear_database on the directory CHROMA_PATH
clear_database(dir) ==
    IF dir.exists THEN [exists |-> FALSE, ids |-> {}] ELSE dir

\* lines 25-27
main_parse_args ==
    /\ pc = "start"
    /\ \E r \in BOOLEAN : reset' = r
    /\ pc' = "parsed"
    /\ UNCHANGED <<run, chroma, pending, existing_ids, new_chunks, trace,
                   submitted, prior, prevInput, prevOutcome, prevPrior, wiped, orderly,
                   calcVars, chunks, input>>

\* lines 28-30.  A reset ends the history the later invocations are
\* compared with.
main_reset ==
    /\ pc = "parsed"
    /\ IF reset
       THEN /\ chroma' = clear_database(chroma)
            /\ trace' = Append(trace, "clear_database")
            /\ submitted' = EmptyBag
            /\ wiped' = (chroma.ids # {})
            /\ orderly' = TRUE
            /\ prevInput' = <<>>
            /\ prevOutcome' = "none"
            /\ prevPrior' = {}
       ELSE UNCHANGED <<chroma, trace, submitted, wiped, orderly, prevInput, prevOutcome,
                         prevPrior>>
    /\ prior' = chroma'.ids
    /\ pc' = "load"
    /\ UNCHANGED <<run, reset, pending, existing_ids, new_chunks,
                   calcVars, chunks, input>>

\* lines 33-34, 43-44, 56-62: the loader returns one Document per page and
\* the splitter replaces each by its chunks, which carry the page's
\* metadata.  The history is kept only to compare an invocation with a
\* preceding one over the same input.
load_and_split ==
    /\ pc = "load"
    /\ \E cs \in BoundedSeq(SyncMeta, MaxChunks) :
          /\ chunks' = cs
          /\ input' = cs
          /\ IF cs = prevInput
             THEN UNCHANGED <<prevInput, prevOutcome, prevPrior>>
             ELSE /\ prevInput' = <<>>
                  /\ prevOutcome' = "none"
                  /\ prevPrior' = {}
          /\ orderly' = (orderly /\ Contiguous(PageIds(cs)))
    /\ trace' = trace \o <<"load_documents", "split_documents">>
    /\ pc' = "add_to_chroma"
    /\ UNCHANGED <<run, reset, chroma, pending, existing_ids, new_chunks,
                   submitted, prior, wiped, calcVars>>

\* add_to_chroma with the test of line 87 negated: the chunks kept are the
\* ones already stored.
add_to_chroma_select_stored ==
    /\ pc = "add_to_chroma"
    /\ chroma' = [chroma EXCEPT !.exists = TRUE]
    /\ chunks' = calculate_chunk_ids(chunks)
    /\ existing_ids' = chroma.ids
    /\ new_chunks' = SelectSeq(chunks', LAMBDA c : c["id"].s \in existing_ids')
    /\ trace' = trace \o <<"add_to_chroma", "get">>
    /\ pc' = "branch"
    /\ UNCHANGED <<run, reset, pending, submitted, prior,
                   prevInput, prevOutcome, prevPrior, wiped, orderly, calcVars, input>>

\* add_to_chroma without the test of line 87: every chunk is kept.
add_to_chroma_select_all ==
    /\ pc = "add_to_chroma"
    /\ chroma' = [chroma EXCEPT !.exists = TRUE]
    /\ chunks' = calculate_chunk_ids(chunks)
    /\ existing_ids' = chroma.ids
    /\ new_chunks' = chunks'
    /\ trace' = trace \o <<"add_to_chroma", "get">>
    /\ pc' = "branch"
    /\ UNCHANGED <<run, reset, pending, submitted, prior,
                   prevInput, prevOutcome, prevPrior, wiped, orderly, calcVars, input>>

\* lines 72-88: open the store, assign the ids, read the stored ids and
\* keep the chunks whose id is not among them
add_to_chroma_select ==
    /\ pc = "add_to_chroma"
    /\ chroma' = [chroma EXCEPT !.exists = TRUE]
    /\ chunks' = calculate_chunk_ids(chunks)
    /\ existing_ids' = chroma.ids
    /\ new_chunks' = SelectSeq(chunks', LAMBDA c : c["id"].s \notin existing_ids')
    /\ trace' = trace \o <<"add_to_chroma", "get">>
    /\ pc' = "branch"
    /\ UNCHANGED <<run, reset, pending, submitted, prior,
                   prevInput, prevOutcome, prevPrior, wiped, orderly, calcVars, input>>

\* lines 90-93: db.add_documents(new_chunks, ids=new_chunk_ids).  The store
\* keeps one entry per id.
add_to_chroma_add ==
    /\ pc = "branch"
    /\ Len(new_chunks) > 0
    /\ LET new_chunk_ids == [j \in DOMAIN new_chunks |-> new_chunks[j]["id"].s]
       IN  /\ pending' = Range(new_chunk_ids)
           /\ submitted' = submitted (+) BagOfSeq(new_chunk_ids)
    /\ trace' = Append(trace, "add_documents")
    /\ pc' = "persist"
    /\ UNCHANGED <<run, reset, chroma, existing_ids, new_chunks, prior,
                   prevInput, prevOutcome, prevPrior, wiped, orderly, calcVars, chunks, input>>

\* add_to_chroma without line 94: the entries are not written to disk and
\* are lost when the process ends.
add_to_chroma_persist_missing ==
    /\ pc = "persist"
    /\ pending' = {}
    /\ pc' = "returned"
    /\ UNCHANGED <<run, reset, chroma, existing_ids, new_chunks, trace, submitted, prior,
                   prevInput, prevOutcome, prevPrior, wiped, orderly, calcVars, chunks,
                   input>>

\* line 94
add_to_chroma_persist ==
    /\ pc = "persist"
    /\ chroma' = [chroma EXCEPT !.ids = @ \cup pending]
    /\ pending' = {}
    /\ trace' = Append(trace, "persist")
    /\ pc' = "returned"
    /\ UNCHANGED <<run, reset, existing_ids, new_chunks, submitted, prior,
                   prevInput, prevOutcome, prevPrior, wiped, orderly, calcVars, chunks, input>>

\* add_to_chroma with db.persist() after the if statement instead of
\* inside it.
add_to_chroma_no_new_persists ==
    /\ pc = "branch"
    /\ Len(new_chunks) = 0
    /\ trace' = Append(trace, "persist")
    /\ pc' = "returned"
    /\ UNCHANGED <<run, reset, chroma, pending, existing_ids, new_chunks,
                   submitted, prior, prevInput, prevOutcome, prevPrior, wiped, orderly,
                   calcVars, chunks, input>>

\* lines 95-96
add_to_chroma_no_new ==
    /\ pc = "branch"
    /\ Len(new_chunks) = 0
    /\ pc' = "returned"
    /\ UNCHANGED <<run, reset, chroma, pending, existing_ids, new_chunks,
                   trace, submitted, prior, prevInput, prevOutcome, prevPrior, wiped, orderly,
                   calcVars, chunks, input>>

\* The process ends before main returns (killed, or an exception of the
\* loader or of the store).  Its memory is lost; which of the entries given
\* to the store before db.persist() are on disk depends on the store.
abort ==
    /\ pc \in {"parsed", "load", "add_to_chroma", "branch", "persist"}
    /\ \E durable \in SUBSET pending : chroma' = [chroma EXCEPT !.ids = @ \cup durable]
    /\ pending' = {}
    /\ chunks' = <<>>
    /\ existing_ids' = {}
    /\ new_chunks' = <<>>
    /\ trace' = <<>>
    /\ reset' = FALSE
    /\ wiped' = FALSE
    /\ orderly' = FALSE
    /\ prevInput' = <<>>
    /\ prevOutcome' = "none"
    /\ prevPrior' = {}
    /\ pc' = "aborted"
    /\ UNCHANGED <<run, submitted, prior, calcVars, input>>

\* line 145: the script is started again
main ==
    /\ pc \in {"returned", "aborted"}
    /\ run < MaxRuns
    /\ run' = run + 1
    /\ prevInput' = input
    /\ prevOutcome' = pc
    /\ prevPrior' = IF pc = "aborted" THEN prior ELSE {}
    /\ pc' = "start"
    /\ reset' = FALSE
    /\ chunks' = <<>>
    /\ input' = <<>>
    /\ existing_ids' = {}
    /\ new_chunks' = <<>>
    /\ trace' = <<>>
    /\ prior' = chroma.ids
    /\ wiped' = FALSE
    /\ UNCHANGED <<chroma, pending, submitted, orderly, calcVars>>

Next ==
    \/ main_parse_args
    \/ main_reset
    \/ load_and_split
    \/ add_to_chroma_select
    \/ add_to_chroma_add
    \/ add_to_chroma_persist
    \/ add_to_chroma_no_new
    \/ abort
    \/ main

Spec == Init /\ [][Next]_vars

----------------------------------------------------------------------------
(* Properties of calculate_chunk_ids *)

\* distinct (source, page) pairs of the list render to distinct "source:page"
RendersApart(cs) ==
    \A j, k \in DOMAIN cs : Pair(cs[j]) # Pair(cs[k]) => PageIdOf(cs[j]) # PageIdOf(cs[k])

Returned == cpc = "returned"

\* C4 as stated: whatever list calculate_chunk_ids is given, no two chunks
\* of the returned list carry the same id.
C4_IdsDistinctForEveryInput == Returned => Distinct(Ids(chunks))

\* C4, amended: when the rendered "source:page" strings of the input form
\* contiguous runs (no page id reappears after a different one), no two
\* chunks of the returned list carry the same id.
C4_IdsDistinctWhenPageIdsContiguous ==
    (Returned /\ Contiguous(PageIds(input))) => Distinct(Ids(chunks))

C4_Witness ==
    /\ Returned
    /\ Len(chunks) >= 3
    /\ Contiguous(PageIds(input))
    /\ ~Distinct(PageIds(input))
    /\ \E j \in DOMAIN input : PageIdOf(input[j]) # PageIdOf(input[1])
    /\ Distinct(Ids(chunks))

\* C5 as stated: the first chunk has index 0; a chunk whose (source, page)
\* differs from its predecessor's has index 0, one whose (source, page) is
\* the same has the predecessor's index plus 1; the id is
\* source:page:index.
C5_CounterResetByPair ==
    Returned =>
        LET ids == Ids(chunks)
        IN  /\ Len(chunks) > 0 => ids[1] = PageIdOf(chunks[1]) \o ":" \o Dec(0)
            /\ \A j \in 1..(Len(chunks) - 1) :
                 IF Pair(chunks[j + 1]) # Pair(chunks[j])
                 THEN ids[j + 1] = PageIdOf(chunks[j + 1]) \o ":" \o Dec(0)
                 ELSE \E k \in 0..Len(chunks) :
                        /\ ids[j] = PageIdOf(chunks[j]) \o ":" \o Dec(k)
                        /\ ids[j + 1] = PageIdOf(chunks[j + 1]) \o ":" \o Dec(k + 1)

\* C5, amended: the same law with "differs" and "the same" decided on the
\* rendered "source:page" string instead of on the (source, page) pair.
C5_CounterResetByPageId ==
    Returned =>
        LET ids == Ids(chunks)
        IN  /\ Len(chunks) > 0 => ids[1] = PageIdOf(chunks[1]) \o ":" \o Dec(0)
            /\ \A j \in 1..(Len(chunks) - 1) :
                 IF PageIdOf(chunks[j + 1]) # PageIdOf(chunks[j])
                 THEN ids[j + 1] = PageIdOf(chunks[j + 1]) \o ":" \o Dec(0)
                 ELSE \E k \in 0..Len(chunks) :
                        /\ ids[j] = PageIdOf(chunks[j]) \o ":" \o Dec(k)
                        /\ ids[j + 1] = PageIdOf(chunks[j + 1]) \o ":" \o Dec(k + 1)

\* two chunks of page 0 followed by two of page 1: indices 0,1,0,1
C5_Witness ==
    /\ Returned
    /\ Ids(chunks) = <<"a:0:0", "a:0:1", "a:1:0", "a:1:1">>

\* C8: a second execution of calculate_chunk_ids, run on the list the first
\* one mutated, assigns to every position the id the first one assigned.
C8_SecondExecutionAssignsSameIds ==
    (Returned /\ exec = 2) => Ids(chunks) = firstIds

C8_Witness ==
    /\ Returned
    /\ exec = 2
    /\ Len(chunks) >= 3
    /\ \E j \in DOMAIN chunks : Get(chunks[j], "id").s # PageIdOf(chunks[j]) \o ":0"
    /\ \E j \in DOMAIN chunks : PageIdOf(chunks[j]) # PageIdOf(chunks[1])

\* C10: calculate_chunk_ids has no failing outcome; when distinct pairs
\* render apart, the returned ids are pairwise distinct if every
\* (source, page) pair occupies one contiguous run of the input, and some id
\* is repeated if a pair reappears after a different one.
C10_UniqueIffPairsContiguous ==
    /\ cpc \in {"idle", "entry", "loop", "returned"}
    /\ (Returned /\ RendersApart(input)) =>
           (Contiguous(Pairs(input)) <=> Distinct(Ids(chunks)))

C10_Witness ==
    /\ Returned
    /\ RendersApart(input)
    /\ ~Contiguous(Pairs(input))
    /\ \E j, k \in DOMAIN chunks : j # k /\ Ids(chunks)[j] = Ids(chunks)[k]

----------------------------------------------------------------------------
(* Properties of main and add_to_chroma *)

IdSet(cs) == {cs[j]["id"].s : j \in DOMAIN cs}

StoreOps(t) == SelectSeq(t, LAMBDA op : op \in {"get", "add_documents", "persist"})

Selected == pc \in {"branch", "persist", "returned"}

\* C1: when add_to_chroma returns, the ids in the store are exactly the ids
\* it held before, together with the ids of the input chunks.
C1_StoreIsPriorUnionInput ==
    pc = "returned" =>
        /\ existing_ids = prior
        /\ chroma.ids = prior \cup IdSet(chunks)

\* the store holds an id of the input, an id that is not in the input, and
\* lacks an id of the input
C1_Witness ==
    /\ pc = "returned"
    /\ prior \cap IdSet(chunks) # {}
    /\ prior \ IdSet(chunks) # {}
    /\ IdSet(chunks) \ prior # {}

\* C2: an invocation that follows a completed one over the same input,
\* without a reset, gives no chunk to the store and leaves its ids unchanged.
C2_SecondRunAddsNothing ==
    (Selected /\ prevOutcome = "returned" /\ prevInput = input) =>
        /\ new_chunks = <<>>
        /\ "add_documents" \notin Range(trace)
        /\ pending = {}
        /\ chroma.ids = prior

C2_Witness ==
    /\ pc = "returned"
    /\ prevOutcome = "returned"
    /\ prevInput = input
    /\ Len(input) >= 2
    /\ ~Distinct(PageIds(input))

C6_NoWriteWhenNothingNew ==
    (Selected /\ IdSet(chunks) \subseteq prior) =>
        /\ StoreOps(trace) = <<"get">>
        /\ pc # "persist"
        /\ pending = {}

C6_Witness ==
    /\ pc = "returned"
    /\ chunks # <<>>
    /\ IdSet(chunks) \subseteq prior
    /\ StoreOps(trace) = <<"get">>

\* C7: with --reset, clear_database is the first call of the invocation and
\* is not called again, the pipeline starts from an empty store and the read
\* of the stored ids returns none; without --reset, clear_database is not
\* called.
C7_ResetPrecedesPipeline ==
    /\ (reset /\ pc \in {"load", "add_to_chroma", "branch", "persist", "returned"}) =>
           /\ trace # <<>>
           /\ trace[1] = "clear_database"
           /\ prior = {}
    /\ \A j \in 2..Len(trace) : trace[j] # "clear_database"
    /\ (reset /\ "get" \in Range(trace)) => existing_ids = {}
    /\ ~reset => "clear_database" \notin Range(trace)

C7_Witness ==
    /\ reset
    /\ wiped
    /\ "get" \in Range(trace)
    /\ existing_ids = {}
    /\ chunks # <<>>

====
